---- MODULE Spec2Model ----
(***************************************************************************)
(* A model of src/api.py: the API client (class API), its request signer   *)
(* and the response validators (class CommonTests).                        *)
(*                                                                         *)
(* Python strings are sequences of atoms: an atom is one character, or a   *)
(* word of characters that urllib's quote_plus leaves alone.  Python       *)
(* values are records tagged with their type.  Insertion-ordered dicts are *)
(* sequences of <<key, value>> pairs with distinct keys.  SHA-256, HMAC    *)
(* and base64 encoding are symbolic constructors (collision free).         *)
(***************************************************************************)
EXTENDS Integers, Sequences, FiniteSets, TLC

VARIABLES
    base_url, key, secret, otp, version,  \* the fields of the API object
    now,         \* the wall clock in milliseconds: int(1000*time.time())
    data,        \* the caller's parameter mapping, as the last call left it
    lastOp,      \* history: the last invocation of an API method
    resp,        \* a requests.Response handed to http_checks
    httpResult,  \* history: how the last http_checks(resp) ended
    body,        \* resp.json()['result'] of the response under validation
    FIELDS,      \* CommonTests.FIELDS, the class-level table
    fieldsOp     \* history: the last _check_fields invocation

vars == <<base_url, key, secret, otp, version, now, data, lastOp,
          resp, httpResult, body, FIELDS, fieldsOp>>

clientVars == <<base_url, key, secret, otp, version>>
validatorVars == <<resp, httpResult, body, FIELDS, fieldsOp>>

----------------------------------------------------------------------------
(* Bounds *)

StartClock == 8
MaxClock == 10
MaxPairs == 2     \* longest sequence handed to get_asset_pairs

----------------------------------------------------------------------------
(* Python values *)

None == [t |-> "NoneType"]
PStr(s) == [t |-> "str", s |-> s]
PBool(b) == [t |-> "bool", b |-> b]
PInt(n) == [t |-> "int", n |-> n]

Digit(d) ==
    CASE d = 0 -> "0" [] d = 1 -> "1" [] d = 2 -> "2" [] d = 3 -> "3"
      [] d = 4 -> "4" [] d = 5 -> "5" [] d = 6 -> "6" [] d = 7 -> "7"
      [] d = 8 -> "8" [] d = 9 -> "9"

RECURSIVE IntToStr(_)
IntToStr(n) ==
    IF n < 10 THEN <<Digit(n)>> ELSE IntToStr(n \div 10) \o <<Digit(n % 10)>>

\* str(v), also what an f-string renders for v
PyStr(v) ==
    CASE v.t = "str" -> v.s
      [] v.t = "NoneType" -> <<"None">>
      [] v.t = "bool" -> IF v.b THEN <<"True">> ELSE <<"False">>
      [] v.t = "int" -> IntToStr(v.n)

\* `not v`
Falsy(v) ==
    CASE v.t = "str" -> v.s = <<>>
      [] v.t = "NoneType" -> TRUE
      [] v.t = "bool" -> ~v.b
      [] v.t = "int" -> v.n = 0

----------------------------------------------------------------------------
(* Insertion-ordered dicts *)

DictHas(d, k) == \E i \in 1..Len(d) : d[i][1] = k
DictGet(d, k) == d[CHOOSE i \in 1..Len(d) : d[i][1] = k][2]

\* d[k] = v : an existing key keeps its position, a new one goes last
DictSet(d, k, v) ==
    IF DictHas(d, k)
    THEN [i \in 1..Len(d) |-> IF d[i][1] = k THEN <<k, v>> ELSE d[i]]
    ELSE Append(d, <<k, v>>)

RECURSIVE Join(_, _)
\* sep.join(parts)
Join(parts, sep) ==
    IF parts = <<>> THEN <<>>
    ELSE IF Len(parts) = 1 THEN parts[1]
    ELSE parts[1] \o sep \o Join(Tail(parts), sep)

----------------------------------------------------------------------------
(* urllib.parse and the form encoding of requests *)

QuoteAtom(a) ==
    CASE a = " " -> "+"
      [] a = "&" -> "%26"
      [] a = "=" -> "%3D"
      [] a = "," -> "%2C"
      [] a = "/" -> "%2F"
      [] a = ":" -> "%3A"
      [] a = "+" -> "%2B"
      [] a = "!" -> "%21"
      [] OTHER -> a

QuotePlus(s) == [i \in 1..Len(s) |-> QuoteAtom(s[i])]

\* urllib.parse.urlencode(d): every pair, values rendered with str()
UrlEncode(d) ==
    Join([i \in 1..Len(d) |->
            QuotePlus(d[i][1]) \o <<"=">> \o QuotePlus(PyStr(d[i][2]))],
         <<"&">>)

\* d without the pairs whose value is None
DropNone(d) == SelectSeq(d, LAMBDA p : p[2] # None)

\* the body requests.post(data=d) puts on the wire: pairs whose value is
\* None are left out, the others are form-encoded in order
FormEncode(d) == UrlEncode(DropNone(d))

----------------------------------------------------------------------------
(* base64.b64decode, hashlib, hmac *)

B64Chars ==
    {"A","B","C","D","E","F","G","H","I","J","K","L","M","N","O","P","Q","R",
     "S","T","U","V","W","X","Y","Z","a","b","c","d","e","f","g","h","i","j",
     "k","l","m","n","o","p","q","r","s","t","u","v","w","x","y","z","0","1",
     "2","3","4","5","6","7","8","9","+","/"}

\* characters outside ASCII, which str.encode('ascii') rejects
NonAscii == {"U+00E9"}

RECURSIVE A2bBase64(_, _, _, _, _)
\* binascii.a2b_base64 as b64decode calls it (validate=False): characters
\* outside the alphabet are skipped, a completed pad sequence ends the
\* scan, a dangling quantum is an error.  The decoded bytes are represented
\* by the alphabet characters they were decoded from.
A2bBase64(s, i, quad_pos, pads, out) ==
    IF i > Len(s)
    THEN IF quad_pos # 0
         THEN [err |-> "binascii.Error", bytes |-> <<>>]
         ELSE [err |-> "none", bytes |-> out]
    ELSE IF s[i] = "="
    THEN IF quad_pos >= 2 /\ quad_pos + pads + 1 >= 4
         THEN [err |-> "none", bytes |-> out]
         ELSE A2bBase64(s, i + 1, quad_pos,
                        IF quad_pos >= 2 THEN pads + 1 ELSE pads, out)
    ELSE IF s[i] \notin B64Chars
    THEN A2bBase64(s, i + 1, quad_pos, pads, out)
    ELSE A2bBase64(s, i + 1, (quad_pos + 1) % 4, 0, Append(out, s[i]))

\* base64.b64decode(v)
B64Decode(v) ==
    IF v.t # "str"
    THEN [err |-> "TypeError", bytes |-> <<>>]
    ELSE IF \E i \in 1..Len(v.s) : v.s[i] \in NonAscii
    THEN [err |-> "ValueError", bytes |-> <<>>]
    ELSE A2bBase64(v.s, 1, 0, 0, <<>>)

Sha256(m) == [alg |-> "sha256", msg |-> m]
HmacSha512(k, m) == [alg |-> "hmac-sha512", key |-> k, msg |-> m]
\* base64.b64encode(x).decode()
B64Encode(x) == [t |-> "str", b64 |-> x]

----------------------------------------------------------------------------
(* class API *)

\* a signer that reads the clock instead of the mapping's nonce
NoncePrefixClock(d) == IntToStr(now)

\* str(data['nonce']), the prefix of the hashed string
NoncePrefix(d) == PyStr(DictGet(d, <<"nonce">>))

\* API._get_signature(urlpath, d): the exception raised, if any, the
\* signature returned, and the mapping as the call leaves it
_get_signature(urlpath, d) ==
    IF ~DictHas(d, <<"nonce">>)
    THEN [err |-> "KeyError", sig |-> None, data |-> d]
    ELSE
      LET postdata == UrlEncode(d)
          encoded == NoncePrefix(d) \o postdata
          message == [path |-> urlpath, digest |-> Sha256(encoded)]
          k == B64Decode(secret)
      IN  IF k.err # "none"
          THEN [err |-> k.err, sig |-> None, data |-> d]
          ELSE [err |-> "none",
                sig |-> B64Encode(HmacSha512(k.bytes, message)),
                data |-> d]

\* a transport call that is tried again when it raised
TransportRetry(call, outcome) ==
    IF outcome = "raise" THEN <<call, call>> ELSE <<call>>

\* the requests an operation hands to the transport for one call, whatever
\* the transport does with it (outcome): requests.get / requests.post are
\* called once and their result or exception is passed on
Transport(call, outcome) == <<call>>

\* a guard that lets a client with only one of the two credentials through
CredentialsMissingBoth == Falsy(key) /\ Falsy(secret)

\* `not self.key or not self.secret`
CredentialsMissing == Falsy(key) \/ Falsy(secret)

\* headers without the public key
PrivateHeadersNoKey(sig) ==
    << <<<<"User-Agent">>, PStr(<<"API Client">>)>>,
       <<<<"API-Sign">>, sig>> >>

\* the headers of a private request
PrivateHeaders(sig) ==
    << <<<<"User-Agent">>, PStr(<<"API Client">>)>>,
       <<<<"API-Key">>, key>>,
       <<<<"API-Sign">>, sig>> >>

\* API._get_private_request(action, d)
_get_private_request(action, d, outcome) ==
    IF CredentialsMissing
    THEN [err |-> "config", data |-> d, calls |-> <<>>,
          signIn |-> None, signOut |-> None]
    ELSE
      LET d1 == DictSet(d, <<"nonce">>, PStr(IntToStr(now)))
          d2 == DictSet(d1, <<"otp">>, otp)
          uri_path == <<"/">> \o PyStr(version) \o <<"/private/">> \o action
          uri == <<"https://">> \o PyStr(base_url) \o uri_path
          s == _get_signature(uri_path, d2)
          headers == PrivateHeaders(s.sig)
          in == [urlpath |-> uri_path, data |-> d2]
      IN  IF s.err # "none"
          THEN [err |-> s.err, data |-> s.data, calls |-> <<>>,
                signIn |-> in, signOut |-> s]
          ELSE [err |-> "none", data |-> s.data,
                calls |-> Transport([method |-> "POST", uri |-> uri,
                                     headers |-> headers, data |-> s.data,
                                     body |-> FormEncode(s.data)], outcome),
                signIn |-> in, signOut |-> s]

\* API._get_public_request(action, d)
_get_public_request(action, d, outcome) ==
    LET data_str == Join([i \in 1..Len(d) |->
                            d[i][1] \o <<"=">> \o PyStr(d[i][2])],
                         <<",">>)
        uri == <<"https://">> \o PyStr(base_url) \o <<"/">> \o PyStr(version)
                 \o <<"/public/">> \o action \o <<"?">> \o data_str
    IN  [err |-> "none", data |-> d,
         calls |-> Transport([method |-> "GET", uri |-> uri,
                              headers |-> <<>>, data |-> <<>>,
                              body |-> <<>>], outcome),
         signIn |-> None, signOut |-> None]

\* the record of one invocation: its arguments (args, and the mapping d),
\* the calls it made to the transport and how it ended (outcome is what the
\* transport did)
Invocation(op, args, d, r, outcome) ==
    [op |-> op, args |-> args, dataIn |-> d, dataOut |-> r.data,
     err |-> IF r.err # "none" THEN r.err
             ELSE IF outcome = "raise" /\ r.calls # <<>> THEN "transport"
             ELSE "none",
     calls |-> r.calls, signIn |-> r.signIn, signOut |-> r.signOut]

NoOp ==
    [op |-> "none", args |-> <<>>, dataIn |-> <<>>, dataOut |-> <<>>,
     err |-> "none", calls |-> <<>>, signIn |-> None, signOut |-> None]

----------------------------------------------------------------------------
(* The inputs the operations are tried on *)

Keys == {None, PStr(<<>>), PStr(<<"PUBKEY">>)}

Secrets ==
    {None, PStr(<<>>),
     PStr(<<"Q","U","J","D">>),          \* valid
     PStr(<<"Q","U","I","=">>),          \* valid, padded
     PStr(<<"Q","U","J">>),              \* padding missing
     PStr(<<"Q","U","J","D","!">>),      \* a character outside the alphabet
     PStr(<<"U+00E9","U","J","D">>)}     \* a character outside ASCII

Otps == {None, PStr(<<"123456">>)}

PairIds == {<<"ETHUSD">>, <<"XBT", "/", "USD">>}

PairLists == UNION {[1..n -> PairIds] : n \in 0..MaxPairs}

Actions == {<<"OpenOrders">>, <<"Balance">>}
PublicActions == {<<"Time">>, <<"AssetPairs">>}

PrivateInputs ==
    {<<>>,
     << <<<<"trades">>, PBool(TRUE)>> >>,
     << <<<<"nonce">>, PStr(<<"7">>)>>, <<<<"a", " ", "b">>, PStr(<<"x", "&", "y">>)>> >>}

PublicInputs ==
    {<<>>,
     << <<<<"pair">>, PStr(<<"XBTUSD">>)>> >>,
     << <<<<"pair">>, PStr(<<"XBT", "/", "USD">>)>>, <<<<"info">>, PStr(<<"fees">>)>> >>,
     << <<<<"count">>, PInt(10)>>, <<<<"since">>, None>> >>}

SignPaths == {<<"/", "0", "/private/", "OpenOrders">>, <<"/", "0", "/private/", "Balance">>}

SignInputs ==
    {<<>>,
     << <<<<"nonce">>, PStr(<<"8">>)>> >>,
     << <<<<"nonce">>, PInt(9)>> >>,
     << <<<<"trades">>, PBool(TRUE)>>, <<<<"nonce">>, PStr(<<"8">>)>>, <<<<"otp">>, None>> >>}

Outcomes == {"return", "raise"}

----------------------------------------------------------------------------
(* The client as a state machine *)

\* no response received yet, no check run yet
NoResp == [status_code |-> PInt(0), headers |-> <<>>, encoding |-> None]
NoHttpResult == [failed |-> "none", exc |-> "none"]
NoBody == [received |-> FALSE, result |-> <<>>]
NoFieldsOp == [op |-> "none", dataIn |-> <<>>, spec |-> <<>>, result |-> "none"]

\* CommonTests.FIELDS: per entity, the declared fields and their types
FieldsTable ==
    [Time |-> << <<"rfc1123", "str">>, <<"unixtime", "int">> >>,
     AssetPair |->
        << <<"aclass_base", "str">>, <<"aclass_quote", "str">>,
           <<"altname", "str">>, <<"base", "str">>,
           <<"fee_volume_currency", "str">>, <<"fees", "list">>,
           <<"fees_maker", "list">>, <<"leverage_buy", "list">>,
           <<"leverage_sell", "list">>, <<"lot", "str">>,
           <<"lot_decimals", "int">>, <<"lot_multiplier", "int">>,
           <<"margin_call", "int">>, <<"margin_stop", "int">>,
           <<"ordermin", "str">>, <<"pair_decimals", "int">>,
           <<"quote", "str">>, <<"wsname", "str">> >>,
     OpenOrders |-> << <<"open", "dict">> >>,
     Order |->
        << <<"refid", "str">>, <<"userref", "str">>, <<"status", "str">>,
           <<"opentm", "int">>, <<"starttm", "int">>, <<"expiretm", "int">>,
           <<"descr", "dict">>, <<"vol", "str">>, <<"vol_exec", "str">>,
           <<"cost", "str">>, <<"fee", "str">>, <<"price", "str">>,
           <<"stopprice", "str">>, <<"limitprice", "str">>,
           <<"trigger", "str">>, <<"misc", "str">>, <<"oflags", "str">>,
           <<"trades", "list">> >>]

Init ==
    /\ base_url = PStr(<<"api.host">>)
    /\ key \in Keys
    /\ secret \in Secrets
    /\ otp \in Otps
    /\ version = PInt(0)
    /\ now = StartClock
    /\ data = <<>>
    /\ lastOp = NoOp
    /\ resp = NoResp
    /\ httpResult = NoHttpResult
    /\ body = NoBody
    /\ FIELDS = FieldsTable
    /\ fieldsOp = NoFieldsOp

\* one call of an API method, which leaves r behind
Call(op, args, d, r, outcome) ==
    /\ data' = r.data
    /\ lastOp' = Invocation(op, args, d, r, outcome)
    /\ UNCHANGED <<clientVars, now, validatorVars>>

\* the clock moves on by a millisecond
Tick ==
    /\ now < MaxClock
    /\ now' = now + 1
    /\ UNCHANGED <<clientVars, data, lastOp, validatorVars>>

GetSignature(urlpath, d) ==
    LET r == _get_signature(urlpath, d)
    IN  Call("_get_signature", <<urlpath>>, d,
             [err |-> r.err, data |-> r.data, calls |-> <<>>,
              signIn |-> [urlpath |-> urlpath, data |-> d], signOut |-> r],
             "return")

GetPrivateRequest(action, d, outcome) ==
    Call("_get_private_request", <<action>>, d,
         _get_private_request(action, d, outcome), outcome)

GetPublicRequest(action, d, outcome) ==
    Call("_get_public_request", <<action>>, d,
         _get_public_request(action, d, outcome), outcome)

\* API.get_server_time()
get_server_time(outcome) == _get_public_request(<<"Time">>, <<>>, outcome)

\* API.get_asset_pair(pair)
get_asset_pair(pair, outcome) ==
    _get_public_request(<<"AssetPairs">>, << <<<<"pair">>, PStr(pair)>> >>,
                        outcome)

\* a wrapper that form-encodes the joined identifiers
get_asset_pairs_quoted(pairs, outcome) ==
    _get_public_request(<<"AssetPairs">>,
                        << <<<<"pair">>, PStr(QuotePlus(Join(pairs, <<",">>)))>> >>,
                        outcome)

\* API.get_asset_pairs(pairs)
get_asset_pairs(pairs, outcome) ==
    _get_public_request(<<"AssetPairs">>,
                        << <<<<"pair">>, PStr(Join(pairs, <<",">>))>> >>,
                        outcome)

\* API.get_open_orders()
get_open_orders(outcome) ==
    _get_private_request(<<"OpenOrders">>, << <<<<"trades">>, PBool(TRUE)>> >>,
                         outcome)

GetServerTime(outcome) ==
    Call("get_server_time", <<>>, <<>>, get_server_time(outcome), outcome)

GetAssetPair(pair, outcome) ==
    Call("get_asset_pair", <<pair>>, << <<<<"pair">>, PStr(pair)>> >>,
         get_asset_pair(pair, outcome), outcome)

GetAssetPairs(pairs, outcome) ==
    Call("get_asset_pairs", <<pairs>>,
         << <<<<"pair">>, PStr(Join(pairs, <<",">>))>> >>,
         get_asset_pairs(pairs, outcome), outcome)

GetOpenOrders(outcome) ==
    Call("get_open_orders", <<>>, << <<<<"trades">>, PBool(TRUE)>> >>,
         get_open_orders(outcome), outcome)

Next ==
    \/ Tick
    \/ \E u \in SignPaths, d \in SignInputs : GetSignature(u, d)
    \/ \E a \in Actions, d \in PrivateInputs, o \in Outcomes : GetPrivateRequest(a, d, o)
    \/ \E a \in PublicActions, d \in PublicInputs, o \in Outcomes : GetPublicRequest(a, d, o)
    \/ \E o \in Outcomes : GetServerTime(o)
    \/ \E p \in PairIds, o \in Outcomes : GetAssetPair(p, o)
    \/ \E ps \in PairLists, o \in Outcomes : GetAssetPairs(ps, o)
    \/ \E o \in Outcomes : GetOpenOrders(o)

Spec == Init /\ [][Next]_vars

----------------------------------------------------------------------------
(* Properties of the client *)

PrivateOps == {"_get_private_request", "get_open_orders"}
PublicOps == {"_get_public_request", "get_server_time", "get_asset_pair",
              "get_asset_pairs"}

\* a credential that is absent or empty
Missing(v) == v = None \/ v = PStr(<<>>)

HasHeader(call, name) ==
    \E i \in 1..Len(call.headers) : call.headers[i][1] = name
HeaderValue(call, name) ==
    call.headers[CHOOSE i \in 1..Len(call.headers) : call.headers[i][1] = name][2]

\* C1: on a client whose key or secret is absent or empty, a private
\* operation ends with the configuration error, has made no transport call
\* and has left the caller's mapping as it was given.
C1_ConfigErrorFirst ==
    (lastOp.op \in PrivateOps /\ (Missing(key) \/ Missing(secret)))
        => /\ lastOp.err = "config"
           /\ lastOp.calls = <<>>
           /\ lastOp.dataOut = lastOp.dataIn
           /\ data = lastOp.dataIn

C1_Witness ==
    /\ lastOp.op = "get_open_orders"
    /\ ~Missing(key)
    /\ Missing(secret)
    /\ lastOp.err = "config"
    /\ data = << <<<<"trades">>, PBool(TRUE)>> >>

IsPrivateStep ==
    \/ \E a \in Actions, d \in PrivateInputs, o \in Outcomes : GetPrivateRequest(a, d, o)
    \/ \E o \in Outcomes : GetOpenOrders(o)

NonceOf(op) == DictGet(op.calls[1].data, <<"nonce">>)

\* C2: of two private requests issued one right after the other, the second
\* never carries the nonce of the first.
C2_NoNonceReuse ==
    [][(/\ lastOp.op \in PrivateOps
        /\ lastOp.calls # <<>>
        /\ IsPrivateStep
        /\ lastOp'.calls # <<>>)
          => NonceOf(lastOp') # NonceOf(lastOp)]_vars

\* RFC 4648 base64: alphabet characters in groups of four, the last group
\* padded with at most two "="
ValidBase64(v) ==
    /\ v.t = "str"
    /\ Len(v.s) % 4 = 0
    /\ \A i \in 1..Len(v.s) :
          \/ v.s[i] \in B64Chars
          \/ /\ v.s[i] = "="
             /\ i > Len(v.s) - 2
             /\ \A j \in i..Len(v.s) : v.s[j] = "="

\* C3: when the secret is not valid base64, every invocation that signs
\* ends with an error: there is no signature and no POST.
C3_InvalidSecretFails ==
    (lastOp.signIn # None /\ ~ValidBase64(secret))
        => /\ lastOp.signOut.err # "none"
           /\ lastOp.signOut.sig = None
           /\ lastOp.err # "none"
           /\ lastOp.calls = <<>>

\* the path of a private request, as the URI carries it after the host
PathOf(call) == SubSeq(call.uri, 3, Len(call.uri))

\* C4: a public operation issues GETs without API-Key and API-Sign; a
\* private operation on a client with key and secret issues POSTs that
\* carry API-Key, the public key, and API-Sign, the signature of the
\* request path and the mapping with nonce and otp injected.
C4_AuthHeaders ==
    \A i \in 1..Len(lastOp.calls) :
        LET call == lastOp.calls[i]
        IN  /\ lastOp.op \in PublicOps
                => /\ call.method = "GET"
                   /\ ~HasHeader(call, <<"API-Key">>)
                   /\ ~HasHeader(call, <<"API-Sign">>)
            /\ lastOp.op \in PrivateOps
                => /\ call.method = "POST"
                   /\ ~Missing(key) /\ ~Missing(secret)
                   /\ HasHeader(call, <<"API-Key">>)
                   /\ HeaderValue(call, <<"API-Key">>) = key
                   /\ HasHeader(call, <<"API-Sign">>)
                   /\ DictHas(data, <<"nonce">>) /\ DictHas(data, <<"otp">>)
                   /\ HeaderValue(call, <<"API-Sign">>)
                        = _get_signature(PathOf(call), data).sig
                   /\ HeaderValue(call, <<"API-Sign">>) # None

C4_Witness ==
    /\ lastOp.op = "get_open_orders"
    /\ lastOp.calls # <<>>
    /\ lastOp.calls[1].method = "POST"
    /\ HasHeader(lastOp.calls[1], <<"API-Sign">>)

\* C6: an invocation calls the transport at most once, whether the
\* transport returns or raises, and a transport error ends the invocation.
C6_AtMostOnce ==
    /\ Len(lastOp.calls) <= 1
    /\ lastOp.err = "transport" => Len(lastOp.calls) = 1

C6_Witness ==
    /\ lastOp.op \in PrivateOps
    /\ lastOp.err = "transport"
    /\ Len(lastOp.calls) = 1

IsSignerStep == \E u \in SignPaths, d \in SignInputs : GetSignature(u, d)

\* C7: an invocation of the signer leaves the mapping and the client's
\* fields as they were, and returns what the invocation before it returned
\* when that one signed the same path and mapping.
C7_SignerPure ==
    [][IsSignerStep
          => /\ data' = lastOp'.dataIn
             /\ clientVars' = clientVars
             /\ lastOp.signIn = lastOp'.signIn
                   => /\ lastOp.signOut.sig = lastOp'.signOut.sig
                      /\ lastOp.signOut.err = lastOp'.signOut.err]_vars

C7_Witness ==
    /\ lastOp.op = "_get_signature"
    /\ lastOp.err = "none"
    /\ lastOp.signOut.sig # None
    /\ now > StartClock

RECURSIVE CommaJoined(_)
\* the identifiers, last to first, with a comma before all but the first
CommaJoined(ids) ==
    IF ids = <<>> THEN <<>>
    ELSE LET n == Len(ids)
         IN  IF n = 1 THEN ids[1]
             ELSE CommaJoined(SubSeq(ids, 1, n - 1)) \o <<",">> \o ids[n]

RECURSIVE Literal(_)
\* key=value pairs as given, with a comma between them
Literal(d) ==
    IF d = <<>> THEN <<>>
    ELSE LET n == Len(d)
             pair == d[n][1] \o <<"=">> \o PyStr(d[n][2])
         IN  IF n = 1 THEN pair
             ELSE Literal(SubSeq(d, 1, n - 1)) \o <<",">> \o pair

PublicPrefix == <<"https://", "api.host", "/", "0", "/public/">>

\* C8: get_asset_pairs issues one GET to .../public/AssetPairs?pair= followed
\* by the identifiers in input order with commas between them, and
\* _get_public_request renders its parameters as literal key=value pairs
\* with commas between them, in insertion order.
C8_PublicQuery ==
    /\ lastOp.op = "get_asset_pairs"
        => /\ Len(lastOp.calls) = 1
           /\ lastOp.calls[1].method = "GET"
           /\ lastOp.calls[1].uri
                = PublicPrefix \o <<"AssetPairs", "?", "pair", "=">>
                    \o CommaJoined(lastOp.args[1])
    /\ lastOp.op = "_get_public_request"
        => /\ Len(lastOp.calls) = 1
           /\ lastOp.calls[1].method = "GET"
           /\ lastOp.calls[1].uri
                 = PublicPrefix \o lastOp.args[1] \o <<"?">>
                     \o Literal(lastOp.dataIn)

C8_Witness ==
    /\ lastOp.op = "get_asset_pairs"
    /\ lastOp.args = << << <<"XBT", "/", "USD">>, <<"ETHUSD">> >> >>
    /\ lastOp.calls[1].uri
         = PublicPrefix \o <<"AssetPairs", "?", "pair", "=",
                              "XBT", "/", "USD", ",", "ETHUSD">>

\* C10: the parameters a private request sends as its form-encoded body
\* are the parameters its signature was computed over, and the nonce
\* hashed in front of them is the nonce in the body.
C10_SignedIsSent ==
    \A i \in 1..Len(lastOp.calls) :
        lastOp.calls[i].method = "POST"
            => /\ lastOp.calls[i].body = UrlEncode(lastOp.signIn.data)
               /\ NoncePrefix(lastOp.signIn.data)
                    = PyStr(DictGet(lastOp.calls[i].data, <<"nonce">>))

----------------------------------------------------------------------------
(* class CommonTests: http_checks *)

\* h in resp.headers
HeaderIn(r, h) == DictHas(r.headers, h)

Passed == [failed |-> "ok", exc |-> "none"]
Failed(check, exc) == [failed |-> check, exc |-> exc]

\* the checks with the encoding looked at before the leaked header
http_checks_swapped(r) ==
    IF r.status_code # PInt(200) THEN Failed("status_code", "AssertionError")
    ELSE IF ~HeaderIn(r, "Content-Type") THEN Failed("Content-Type", "KeyError")
    ELSE IF DictGet(r.headers, "Content-Type") # PStr(<<"application/json">>)
    THEN Failed("Content-Type", "AssertionError")
    ELSE IF ~HeaderIn(r, "Date") THEN Failed("Date", "AssertionError")
    ELSE IF ~HeaderIn(r, "Connection") THEN Failed("Connection", "AssertionError")
    ELSE IF ~HeaderIn(r, "referrer-policy")
    THEN Failed("referrer-policy", "AssertionError")
    ELSE IF r.encoding # PStr(<<"utf-8">>) THEN Failed("encoding", "AssertionError")
    ELSE IF HeaderIn(r, "X-Powered-By") THEN Failed("X-Powered-By", "AssertionError")
    ELSE Passed

\* CommonTests.http_checks(r): the first statement that raises, if any
http_checks(r) ==
    IF r.status_code # PInt(200) THEN Failed("status_code", "AssertionError")
    ELSE IF ~HeaderIn(r, "Content-Type") THEN Failed("Content-Type", "KeyError")
    ELSE IF DictGet(r.headers, "Content-Type") # PStr(<<"application/json">>)
    THEN Failed("Content-Type", "AssertionError")
    ELSE IF ~HeaderIn(r, "Date") THEN Failed("Date", "AssertionError")
    ELSE IF ~HeaderIn(r, "Connection") THEN Failed("Connection", "AssertionError")
    ELSE IF ~HeaderIn(r, "referrer-policy")
    THEN Failed("referrer-policy", "AssertionError")
    ELSE IF HeaderIn(r, "X-Powered-By") THEN Failed("X-Powered-By", "AssertionError")
    ELSE IF r.encoding # PStr(<<"utf-8">>) THEN Failed("encoding", "AssertionError")
    ELSE Passed

\* The responses the checks are tried on
StatusCodes == {PInt(200), PInt(404)}
ContentTypes == {<<>>,
                 << <<"Content-Type", PStr(<<"application/json">>)>> >>,
                 << <<"Content-Type", PStr(<<"text/html">>)>> >>}
OtherHeaders == <<"Date", "Connection", "referrer-policy", "X-Powered-By">>
Encodings == {PStr(<<"utf-8">>), PStr(<<"ISO-8859-1">>), None}

\* the headers named by the set hs, in the order of OtherHeaders
HeadersOf(hs) ==
    LET val(h) == IF h = "X-Powered-By" THEN PStr(<<"Express">>)
                  ELSE PStr(<<"value">>)
        all == [i \in 1..Len(OtherHeaders) |-> <<OtherHeaders[i], val(OtherHeaders[i])>>]
    IN  SelectSeq(all, LAMBDA p : p[1] \in hs)

Responses ==
    {[status_code |-> st, headers |-> ct \o HeadersOf(hs), encoding |-> enc] :
        st \in StatusCodes, ct \in ContentTypes,
        hs \in SUBSET {OtherHeaders[i] : i \in 1..Len(OtherHeaders)},
        enc \in Encodings}

\* a response comes back from the transport
Receive(r) ==
    /\ resp' = r
    /\ httpResult' = NoHttpResult
    /\ UNCHANGED <<clientVars, now, data, lastOp, body, FIELDS, fieldsOp>>

HttpChecks ==
    /\ resp # NoResp
    /\ httpResult' = http_checks(resp)
    /\ UNCHANGED <<clientVars, now, data, lastOp, resp, body, FIELDS, fieldsOp>>

InitValidators ==
    /\ base_url = PStr(<<"api.host">>)
    /\ key = None
    /\ secret = None
    /\ otp = None
    /\ version = PInt(0)
    /\ now = StartClock
    /\ data = <<>>
    /\ lastOp = NoOp
    /\ resp = NoResp
    /\ httpResult = NoHttpResult
    /\ body = NoBody
    /\ FIELDS = FieldsTable
    /\ fieldsOp = NoFieldsOp

NextHttp ==
    \/ \E r \in Responses : Receive(r)
    \/ HttpChecks

SpecHttp == InitValidators /\ [][NextHttp]_vars

CheckNames == <<"status_code", "Content-Type", "Date", "Connection",
                "referrer-policy", "X-Powered-By", "encoding">>

\* what each check asks of the response, in the order of CheckNames
Conditions(r) ==
    << r.status_code = PInt(200),
       \E i \in 1..Len(r.headers) :
           r.headers[i] = <<"Content-Type", PStr(<<"application/json">>)>>,
       \E i \in 1..Len(r.headers) : r.headers[i][1] = "Date",
       \E i \in 1..Len(r.headers) : r.headers[i][1] = "Connection",
       \E i \in 1..Len(r.headers) : r.headers[i][1] = "referrer-policy",
       \A i \in 1..Len(r.headers) : r.headers[i][1] # "X-Powered-By",
       r.encoding = PStr(<<"utf-8">>) >>

\* C9: http_checks passes exactly when all seven conditions hold, and it
\* fails at a check exactly when that check's condition is the first, in
\* the order of CheckNames, that does not hold.
C9_HttpChecks ==
    httpResult # NoHttpResult
        => LET c == Conditions(resp)
           IN  /\ httpResult.failed = "ok" <=> \A i \in 1..7 : c[i]
               /\ \A i \in 1..7 :
                     httpResult.failed = CheckNames[i]
                        <=> (~c[i] /\ \A j \in 1..(i - 1) : c[j])

C9_Witness ==
    /\ httpResult.failed = "X-Powered-By"
    /\ resp.status_code = PInt(200)
    /\ resp.encoding = PStr(<<"utf-8">>)
    /\ resp.headers = << <<"Content-Type", PStr(<<"application/json">>)>>,
                         <<"Date", PStr(<<"value">>)>>,
                         <<"Connection", PStr(<<"value">>)>>,
                         <<"referrer-policy", PStr(<<"value">>)>>,
                         <<"X-Powered-By", PStr(<<"Express">>)>> >>

----------------------------------------------------------------------------
(* class CommonTests: _check_fields *)

\* isinstance(v, T): bool is a subclass of int
IsInstance(v, T) == v.t = T \/ (v.t = "bool" /\ T = "int")

\* del d[k]
DictDel(d, k) == SelectSeq(d, LAMBDA p : p[1] # k)

RECURSIVE CheckLoop(_, _)
\* the loop over data.items() and the assertion after it; fields is the
\* local copy of the specification
CheckLoop(items, fields) ==
    IF items = <<>>
    THEN IF fields = <<>> THEN "ok" ELSE "missing fields"
    ELSE LET field == items[1][1]
             field_data == items[1][2]
         IN  IF ~DictHas(fields, field) THEN "unchecked field"
             ELSE IF ~IsInstance(field_data, DictGet(fields, field))
             THEN "wrong type"
             ELSE CheckLoop(Tail(items), DictDel(fields, field))

\* CommonTests._check_fields(d, fields_spec): how it ends and the mapping
\* passed as fields_spec as the call leaves it (the loop deletes from a copy)
_check_fields(d, fields_spec) ==
    [result |-> CheckLoop(d, fields_spec), fields_spec |-> fields_spec]

\* The result objects the checks are tried on: JSON values, and mappings of
\* some of the field names, in any order, to them
JsonValues == {PStr(<<"x">>), PInt(1), PBool(TRUE), None,
               [t |-> "list"], [t |-> "dict"]}
FieldNames == {"unixtime", "rfc1123", "open"}
Results ==
    UNION {{d \in [1..n -> FieldNames \X JsonValues] :
               \A i, j \in 1..n : d[i][1] = d[j][1] => i = j} :
           n \in 0..Cardinality(FieldNames)}
Entities == {"Time", "OpenOrders"}

\* the result object of a response is taken up for validation
ReceiveResult(d) ==
    /\ ~body.received
    /\ body' = [received |-> TRUE, result |-> d]
    /\ UNCHANGED <<clientVars, now, data, lastOp, resp, httpResult, FIELDS,
                   fieldsOp>>

CheckFields(entity) ==
    LET d == body.result
        r == _check_fields(d, FIELDS[entity])
    IN  /\ body.received
        /\ fieldsOp' = [op |-> "_check_fields", dataIn |-> d,
                        spec |-> FIELDS[entity], result |-> r.result]
        /\ FIELDS' = [FIELDS EXCEPT ![entity] = r.fields_spec]
        /\ UNCHANGED <<clientVars, now, data, lastOp, resp, httpResult, body>>

\* CommonTests.check_fields_server_time(resp)
CheckFieldsServerTime ==
    LET d == body.result
        r == _check_fields(d, FIELDS.Time)
    IN  /\ body.received
        /\ fieldsOp' = [op |-> "check_fields_server_time", dataIn |-> d,
                        spec |-> FIELDS.Time, result |-> r.result]
        /\ FIELDS' = [FIELDS EXCEPT !.Time = r.fields_spec]
        /\ UNCHANGED <<clientVars, now, data, lastOp, resp, httpResult, body>>

NextFields ==
    \/ \E d \in Results : ReceiveResult(d)
    \/ \E e \in Entities : CheckFields(e)
    \/ CheckFieldsServerTime

SpecFields == InitValidators /\ [][NextFields]_vars

\* the kind of a JSON value: string, integer, boolean, null, sequence, mapping
KindOf(v) == v.t

Declared(spec, f) == \E i \in 1..Len(spec) : spec[i][1] = f
DeclaredKind(spec, f) == spec[CHOOSE i \in 1..Len(spec) : spec[i][1] = f][2]

\* C5: _check_fields succeeds exactly when every field of the data is
\* declared, every field's value is of the declared kind and every declared
\* field is present; a Time result that lacks only rfc1123 ends with the
\* missing-fields error; the specification passed in is left as it was.
C5_CheckFields ==
    fieldsOp.op # "none"
        => LET d == fieldsOp.dataIn
               spec == fieldsOp.spec
               a == \A i \in 1..Len(d) : Declared(spec, d[i][1])
               b == \A i \in 1..Len(d) :
                       Declared(spec, d[i][1])
                          => KindOf(d[i][2]) = DeclaredKind(spec, d[i][1])
               c == \A j \in 1..Len(spec) :
                       \E i \in 1..Len(d) : d[i][1] = spec[j][1]
           IN  /\ fieldsOp.result = "ok" <=> (a /\ b /\ c)
               /\ (spec = FieldsTable.Time /\ d = << <<"unixtime", PInt(1)>> >>)
                     => fieldsOp.result = "missing fields"
               /\ FIELDS = FieldsTable

====
